---- MODULE Spec2Model ----
(***************************************************************************)
(* A model of NodeSeek-Daily (src/main.py): the retry decorator, the       *)
(* NodeSeekDaily object (configuration, browser session, login, check-in,  *)
(* comment action) and main() with its three modes, finally block, object  *)
(* finalizer and process exit code. Spec is a run of main, SpecRetry the    *)
(* retry wrapper around a generic operation, SpecSig a run of main in      *)
(* which termination signals arrive.                                       *)
(*                                                                         *)
(* The browser engine (DrissionPage), the site and the process environment *)
(* are the model's inputs: every call into them draws its outcome (raises, *)
(* element found, element absent) from the outcomes the call can have.     *)
(***************************************************************************)
EXTENDS Integers, Sequences, FiniteSets, TLC

\* ------------------------------------------------------------------ bounds
\* Largest max_retries the generic retry wrapper is exercised with.
MaxN == 4
\* Largest number of leading failures of the generic operation.
MaxK == 5
\* Largest delay (seconds) the generic retry wrapper is decorated with.
MaxDelay == 2

\* ------------------------------------------------------- program constants
\* @retry(max_retries=3, delay=2) on setup_browser, sign_in, comment_posts.
SetupRetries == 3
SignInRetries == 3
CommentRetries == 3

VARIABLES
    \* ---- the retry wrapper's frame (one decorated call at a time)
    func,         \* the decorated function being called, "none" outside a call
    fpc,          \* position inside wrapper / function body
    max_retries,  \* the decorator's max_retries of this call
    retries,      \* wrapper local `retries`
    calls,        \* number of times wrapper invoked func in this call
    warnings,     \* logger.warning events emitted by the wrapper in this call
    errors,       \* logger.error events emitted by the wrapper in this call
    sleeps,       \* time.sleep(delay) calls made by the wrapper in this call
    delay,        \* the decorator's delay of this call
    waits,        \* the durations slept by the wrapper in this call, in order
    ret,          \* value returned by the wrapper (<<type, value>>)
    exc,          \* exception in flight: 0 none, else the attempt that raised it
    caught,       \* invocations of func in this call that ended in func's own
                  \* outermost `except Exception` handler (exception swallowed)
    \* ---- the generic operation of the retry wrapper's contract
    failFirst,    \* the operation raises on its first failFirst invocations
    \* ---- the process: main(), run_all() and the NodeSeekDaily object
    pc,           \* position in main() / run_all()
    frame,        \* "main" or "run_all": whose statements pc points into
    args,         \* the command line: [mode, max_posts, headless, random]
    obj,          \* the NodeSeekDaily object: "none", "partial" (__init__ raised), "ok"
    bound,        \* "node_seek" in locals() of main
    cookie,       \* self.cookie
    username,     \* self.username
    password,     \* self.password
    headless,     \* self.headless
    use_random,   \* self.use_random
    page,         \* self.page: -1 attribute not set, 0 None, n >= 1 the n-th browser
    browsers,     \* launched browsers, in launch order: [quits |-> times quit was
                  \* called, headless |-> launched with options.headless]
    result,       \* return value of main(): "none", "True", "False"
    exit_code,    \* argument of sys.exit: -1 while running
    log,          \* orchestration events in order (history)
    structural,   \* actions whose every attempt ended in a structural failure (history)
    \* ---- comment_posts locals
    max_posts,    \* the max_posts argument of the call
    post_items,   \* the listing read by page.eles
    listed,       \* the listing was read and filtered in this call
    valid_posts,  \* valid_posts, as positions in the listing
    selected_posts,\* selected_posts, as positions in the listing
    selected_urls,\* hrefs of the sampled posts (0: href is None)
    idx,          \* posts of selected_urls processed so far
    comment_count,\* comment_count
    navigated,    \* post pages navigated to, in order (history)
    outcomes,     \* "submitted" or "failed" for each navigated post page, in order (history)
    \* ---- sign_in
    icon,         \* result of looking up the check-in icon: "unknown", "found", "absent"
    clicks,       \* clicks performed by sign_in, in order (history)
    reward,       \* how the reward step ended: "none", "clicked", "absent", "raise"
    \* ---- history of the run
    last_count,   \* count the last comment_posts call returned to its caller, -1 if none
    login_ops,    \* what the last login() call did with the page, in order
    signalled     \* a termination signal was delivered after a browser launch

wvars == <<func, fpc, max_retries, retries, calls, warnings, errors, sleeps, delay, waits, ret, exc,
           caught>>
\* configuration and object attributes
ovars == <<args, obj, bound, cookie, username, password, headless, use_random>>
\* comment_posts locals
cvars == <<max_posts, post_items, listed, valid_posts, selected_posts, selected_urls,
           idx, comment_count, navigated, outcomes>>
\* sign_in locals
svars == <<icon, clicks, reward>>
\* main's and run_all's own state
pvars == <<pc, frame, page, browsers, result, exit_code, log, structural>>
\* everything outside the wrapper's frame
\* what the run has done so far
hvars == <<last_count, login_ops, signalled>>
mvars == <<pvars, ovars, cvars, svars, hvars>>
vars == <<wvars, failFirst, mvars>>

\* Python values the model passes around, as <<type, value>>.
PyNone == <<"none", 0>>
PyTrue == <<"bool", 1>>
PyFalse == <<"bool", 0>>
PyInt(n) == <<"int", n>>
OpValue == <<"value", 42>>
Truthy(v) == v[2] # 0
Min(a, b) == IF a <= b THEN a ELSE b

\* ------------------------------------------------------------ retry wrapper
\* First statement of the body of each decorated function.
BodyEntry(f) ==
    CASE f = "op" -> "op_body"
      [] f = "setup_browser" -> "sb_launch"
      [] f = "sign_in" -> "si_get"
      [] f = "comment_posts" -> "cp_get"

\* wrapper(*args): retries = 0, then the while loop.
\* @retry(max_retries=3, delay=2) on setup_browser, sign_in, comment_posts.
MethodDelay == 2

\* The delay the decorator was applied with: 2 on the three methods; the
\* generic operation keeps the one it was decorated with.
DelayOf(f, d) == IF f = "op" THEN d ELSE MethodDelay

WrapperEnter(f, n) ==
    /\ func' = f
    /\ max_retries' = n
    /\ retries' = 0
    /\ calls' = 0
    /\ warnings' = 0
    /\ errors' = 0
    /\ sleeps' = 0
    /\ delay' = DelayOf(f, delay)
    /\ waits' = <<>>
    /\ ret' = PyNone
    /\ exc' = 0
    /\ caught' = 0
    /\ fpc' = "w_loop"

\* `return func(*args, **kwargs)` when func returns v.
BodyReturn(v) ==
    /\ ret' = v
    /\ fpc' = "w_done"
    /\ UNCHANGED <<func, max_retries, retries, calls, warnings, errors, sleeps, delay, waits, exc,
                   caught>>

\* func's own outermost `except Exception` handler swallowed the exception and
\* func returns v: the wrapper sees an ordinary return.
BodyCaught(v) ==
    /\ ret' = v
    /\ fpc' = "w_done"
    /\ caught' = caught + 1
    /\ UNCHANGED <<func, max_retries, retries, calls, warnings, errors, sleeps, delay, waits, exc>>

\* func raised an Exception inside the wrapper's try.
BodyRaise ==
    /\ fpc' = "w_except"
    /\ exc' = calls
    /\ UNCHANGED <<func, max_retries, retries, calls, warnings, errors, sleeps, delay, waits, ret,
                   caught>>

\* `while retries < max_retries:` and the call of func; falling off the loop
\* returns None.
WrapperLoop ==
    /\ fpc = "w_loop"
    /\ IF retries < max_retries
       THEN /\ calls' = calls + 1
            /\ fpc' = BodyEntry(func)
            /\ ret' = ret
       ELSE /\ calls' = calls
            /\ fpc' = "w_done"
            /\ ret' = PyNone
    /\ UNCHANGED <<func, max_retries, retries, warnings, errors, sleeps, delay, waits, exc, caught,
                   failFirst>>
    /\ UNCHANGED mvars

\* Mutation of Exhausted: the budget test off by one.
ExhaustedOffByOne(r, n) == r > n

\* The retry budget test of the except clause: `if retries >= max_retries`.
Exhausted(r, n) == r >= n

\* Mutation of ErrorEvents: an error-level event on every failed attempt.
ErrorEventsEveryFailure(r, n) == 1

\* Error-level events the except clause emits when retries has become r.
ErrorEvents(r, n) == IF Exhausted(r, n) THEN 1 ELSE 0

\* Mutation of SleepFor: the wait grows with the failures so far.
SleepBackoff(d, r) == d * r

\* `time.sleep(delay)` after the r-th failure: the decorator's delay as is.
SleepFor(d, r) == d

\* `except Exception as e:` retries += 1, one warning, then either the error
\* event and a bare `raise` (the exception in flight propagates) or the sleep
\* and the next turn of the loop.
WrapperExcept ==
    /\ fpc = "w_except"
    /\ retries' = retries + 1
    /\ warnings' = warnings + 1
    /\ errors' = errors + ErrorEvents(retries + 1, max_retries)
    /\ IF Exhausted(retries + 1, max_retries)
       THEN /\ sleeps' = sleeps
            /\ waits' = waits
            /\ exc' = exc
            /\ fpc' = "w_raised"
       ELSE /\ sleeps' = sleeps + 1
            /\ waits' = Append(waits, SleepFor(delay, retries + 1))
            /\ exc' = 0
            /\ fpc' = "w_loop"
    /\ UNCHANGED <<func, max_retries, delay, calls, ret, caught, failFirst>>
    /\ UNCHANGED mvars

\* ------------------------------------------- generic operation (contract)
\* An operation that raises on its first failFirst invocations, then returns.
OpBody ==
    /\ fpc = "op_body"
    /\ IF calls <= failFirst THEN BodyRaise ELSE BodyReturn(OpValue)
    /\ UNCHANGED failFirst
    /\ UNCHANGED mvars

\* A caller applies the wrapper to the operation once.
OpCall ==
    /\ fpc = "idle"
    /\ func = "none"
    /\ WrapperEnter("op", max_retries)
    /\ UNCHANGED failFirst
    /\ UNCHANGED mvars

\* The process before main() is entered, apart from pc and args.
InitProcess ==
    /\ frame = "main"
    /\ obj = "none"
    /\ bound = FALSE
    /\ cookie = "None"
    /\ username = "None"
    /\ password = "None"
    /\ headless = TRUE
    /\ use_random = FALSE
    /\ page = -1
    /\ browsers = <<>>
    /\ result = "none"
    /\ exit_code = -1
    /\ log = <<>>
    /\ structural = {}
    /\ max_posts = 0
    /\ post_items = <<>>
    /\ listed = FALSE
    /\ valid_posts = <<>>
    /\ selected_posts = <<>>
    /\ selected_urls = <<>>
    /\ idx = 0
    /\ comment_count = 0
    /\ navigated = <<>>
    /\ outcomes = <<>>
    /\ icon = "unknown"
    /\ clicks = <<>>
    /\ reward = "none"
    /\ last_count = -1
    /\ login_ops = <<>>
    /\ signalled = FALSE

\* The retry wrapper applied to the generic operation, outside any run of main.
InitRetry ==
    /\ pc = "library"
    /\ args = [mode |-> "all", max_posts |-> 0, headless |-> "none", random |-> FALSE]
    /\ InitProcess
    /\ func = "none"
    /\ fpc = "idle"
    /\ max_retries \in -1..MaxN
    /\ delay \in 1..MaxDelay
    /\ waits = <<>>
    /\ retries = 0
    /\ calls = 0
    /\ warnings = 0
    /\ errors = 0
    /\ sleeps = 0
    /\ ret = PyNone
    /\ exc = 0
    /\ caught = 0
    /\ failFirst \in 0..MaxK

NextRetry == OpCall \/ WrapperLoop \/ OpBody \/ WrapperExcept

SpecRetry == InitRetry /\ [][NextRetry]_vars

\* ============================================================ configuration
\* Values of an environment variable: unset, set to "", set to a non-empty string.
EnvValues == {"None", "", "x"}

\* Truthiness of a Python str-or-None.
StrTruthy(a) == a \notin {"None", ""}

\* Python `a or b`.
PyOr(a, b) == IF StrTruthy(a) THEN a ELSE b

\* Mutation of ConfigOK: any one of the three values is accepted.
ConfigOKAnyOne(c, u, p) == StrTruthy(c) \/ StrTruthy(u) \/ StrTruthy(p)

\* The test of __init__: `self.cookie or (self.username and self.password)`.
ConfigOK(c, u, p) == StrTruthy(c) \/ (StrTruthy(u) /\ StrTruthy(p))

Modes == {"sign_only", "comment_only", "all"}

\* The HEADLESS environment variable: unset, or one of these texts.
HeadlessEnv == {"None", "false", "TRUE"}

\* str.lower() on the texts above.
Lower(e) == IF e = "TRUE" THEN "true" ELSE e

\* `os.environ.get("HEADLESS", "true").lower() == "true"`.
ConfiguredHeadless(e) == Lower(IF e = "None" THEN "true" ELSE e) = "true"

\* What the command line says about headless: neither flag, --headless, or
\* --no-headless (of several, the last one given).
HeadlessFlags == {"none", "headless", "no_headless"}

\* args.headless as argparse produces it: --headless is store_true, whose
\* default for the destination is False; --no-headless stores False into the
\* same destination. The value is never None.
ParseHeadless(flag) == IF flag = "headless" THEN PyTrue ELSE PyFalse

\* NodeSeekDaily() in main: __init__ reads the environment, raises ValueError
\* before `self.page = None` when the configuration test fails.
Construct ==
    /\ pc = "start"
    /\ \E nsCookie \in EnvValues, envCookie \in EnvValues,
          nsUser \in EnvValues, envUser \in EnvValues,
          nsPass \in EnvValues, envPass \in EnvValues, envHeadless \in HeadlessEnv,
          envRandom \in BOOLEAN :
          LET c == PyOr(nsCookie, envCookie)
              u == PyOr(PyOr("None", nsUser), envUser)
              p == PyOr(PyOr("None", nsPass), envPass)
          IN  /\ cookie' = c
              /\ username' = u
              /\ password' = p
              /\ headless' = ConfiguredHeadless(envHeadless)
              /\ use_random' = envRandom
              /\ IF ConfigOK(c, u, p)
                 THEN /\ page' = 0
                      /\ obj' = "ok"
                      /\ bound' = TRUE
                      /\ pc' = "override"
                 ELSE /\ page' = page
                      /\ obj' = "partial"
                      /\ bound' = FALSE
                      /\ pc' = "except"
    /\ UNCHANGED <<frame, args, browsers, result, exit_code, log, structural>>
    /\ UNCHANGED cvars
    /\ UNCHANGED svars
    /\ UNCHANGED hvars
    /\ UNCHANGED wvars
    /\ UNCHANGED failFirst

\* main: the command line overrides of the object's settings:
\* `if args.headless is not None: node_seek.headless = args.headless`, and
\* --random can only switch use_random on.
Override ==
    /\ pc = "override"
    /\ LET h == ParseHeadless(args.headless)
       IN  headless' = IF h # PyNone THEN Truthy(h) ELSE headless
    /\ use_random' = IF args.random THEN TRUE ELSE use_random
    /\ pc' = "setup"
    /\ UNCHANGED <<frame, args, obj, bound, cookie, username, password, page,
                   browsers, result, exit_code, log, structural>>
    /\ UNCHANGED cvars
    /\ UNCHANGED svars
    /\ UNCHANGED hvars
    /\ UNCHANGED wvars
    /\ UNCHANGED failFirst

\* ============================================================ orchestration
\* `return v` from main, or from run_all into main's
\* `if not node_seek.run_all(...): return False` / `return True`: in both
\* frames main returns v, and its finally block runs next.
Return(v) ==
    /\ result' = v
    /\ frame' = "main"
    /\ pc' = "finally"

\* The wrapper's frame is popped at the call site.
WrapperLeave ==
    /\ func' = "none"
    /\ fpc' = "idle"
    /\ UNCHANGED <<max_retries, retries, calls, warnings, errors, sleeps, delay, waits, ret, exc,
                   caught>>

\* Every attempt of the call just finished ended in the function's own
\* outermost exception handler.
AllAttemptsCaught == calls > 0 /\ caught = calls

\* main / run_all: `node_seek.setup_browser()` is called.
CallSetup ==
    /\ pc = "setup"
    /\ fpc = "idle"
    /\ WrapperEnter("setup_browser", SetupRetries)
    /\ pc' = "setup_ret"
    /\ UNCHANGED <<frame, page, browsers, result, exit_code, log, structural>>
    /\ UNCHANGED ovars
    /\ UNCHANGED svars
    /\ UNCHANGED hvars
    /\ UNCHANGED cvars
    /\ UNCHANGED failFirst

\* Mutation of SetupGate: the return value of setup_browser is ignored.
SetupGateIgnored(v) == TRUE

\* `if not node_seek.setup_browser(): return False`: whether to go on.
SetupGate(v) == Truthy(v)

\* main / run_all: setup_browser returned (or raised).
AfterSetup ==
    /\ pc = "setup_ret"
    /\ fpc \in {"w_done", "w_raised"}
    /\ WrapperLeave
    /\ IF fpc = "w_raised"
       THEN /\ log' = Append(log, "setup_raise")
            /\ pc' = "except"
            /\ UNCHANGED <<frame, result>>
       ELSE IF SetupGate(ret)
       THEN /\ log' = Append(log, IF Truthy(ret) THEN "setup_ok" ELSE "setup_fail")
            /\ pc' = "login"
            /\ UNCHANGED <<frame, result>>
       ELSE /\ log' = Append(log, "setup_fail")
            /\ Return("False")
    /\ UNCHANGED <<page, browsers, exit_code, structural>>
    /\ UNCHANGED ovars
    /\ UNCHANGED svars
    /\ UNCHANGED hvars
    /\ UNCHANGED cvars
    /\ UNCHANGED failFirst

\* Mutation of AfterLoginPc: the check-in-only branch runs the comment action.
AfterLoginPcCommentFirst(fr, mode) ==
    IF fr = "run_all" THEN "comment"
    ELSE CASE mode = "all" -> "setup"
           [] OTHER -> "comment"

\* What follows a successful login: main picks the action by the mode (the
\* default mode enters run_all, which starts with setup_browser again);
\* run_all goes on to comment_posts.
AfterLoginPc(fr, mode) ==
    IF fr = "run_all" THEN "comment"
    ELSE CASE mode = "sign_only" -> "sign"
           [] mode = "comment_only" -> "comment"
           [] OTHER -> "setup"

AfterLoginFrame(fr, mode) ==
    IF fr = "main" /\ mode = "all" THEN "run_all" ELSE fr

\* Mutation of LoginResult: the probe alone decides.
LoginResultProbeOnly(c, probe) == probe

\* login(): True exactly when a cookie is configured and the logged-in probe
\* (_is_logged_in) finds the user card.
LoginResult(c, probe) == StrTruthy(c) /\ probe

\* How a login() call can go once a cookie is configured: one of the three
\* page calls raises, or the probe finds the user card, finds none, or raises
\* (which _is_logged_in swallows).
LoginOutcomes == {"raise_get", "raise_set", "raise_refresh", "card", "nocard",
                  "probe_raise"}

\* The page calls login() makes, in order, up to the one that raises; none
\* without a cookie. The probe is recorded with its outcome.
LoginOps(c, out) ==
    IF ~StrTruthy(c) THEN <<>>
    ELSE CASE out = "raise_get" -> <<"get">>
           [] out = "raise_set" -> <<"get", "set_cookies">>
           [] out = "raise_refresh" -> <<"get", "set_cookies", "refresh">>
           [] OTHER -> <<"get", "set_cookies", "refresh", out>>

\* main / run_all: `if not node_seek.login(): return False`, and the dispatch.
\* With a cookie, login drives the page (get, set.cookies, refresh), any of
\* which may raise; _is_logged_in swallows its own exceptions.
Login ==
    /\ pc = "login"
    /\ \E out \in LoginOutcomes :
          /\ login_ops' = LoginOps(cookie, out)
          /\ IF StrTruthy(cookie) /\ out \in {"raise_get", "raise_set", "raise_refresh"}
             THEN /\ log' = Append(log, "login_raise")
                  /\ pc' = "except"
                  /\ UNCHANGED <<frame, result>>
             ELSE IF LoginResult(cookie, out = "card")
             THEN /\ log' = Append(log, "login_true")
                  /\ pc' = AfterLoginPc(frame, args.mode)
                  /\ frame' = AfterLoginFrame(frame, args.mode)
                  /\ UNCHANGED result
             ELSE /\ log' = Append(log, "login_false")
                  /\ Return("False")
    /\ UNCHANGED <<last_count, signalled>>
    /\ UNCHANGED <<page, browsers, exit_code, structural>>
    /\ UNCHANGED ovars
    /\ UNCHANGED svars
    /\ UNCHANGED cvars
    /\ UNCHANGED wvars
    /\ UNCHANGED failFirst

\* run_all: `self.comment_posts(max_posts=2)`.
RunAllMaxPosts == 2

\* main (comment-only) / run_all: comment_posts is called.
CallComment ==
    /\ pc = "comment"
    /\ fpc = "idle"
    /\ WrapperEnter("comment_posts", CommentRetries)
    /\ max_posts' = IF frame = "main" THEN args.max_posts ELSE RunAllMaxPosts
    /\ post_items' = <<>>
    /\ listed' = FALSE
    /\ valid_posts' = <<>>
    /\ selected_posts' = <<>>
    /\ selected_urls' = <<>>
    /\ idx' = 0
    /\ comment_count' = 0
    /\ navigated' = <<>>
    /\ outcomes' = <<>>
    /\ log' = Append(log, "comment_posts")
    /\ pc' = "comment_ret"
    /\ UNCHANGED <<frame, page, browsers, result, exit_code, structural>>
    /\ UNCHANGED ovars
    /\ UNCHANGED svars
    /\ UNCHANGED hvars
    /\ UNCHANGED failFirst

\* main (comment-only) / run_all: comment_posts returned (or raised); its
\* locals are gone with its frame.
AfterComment ==
    /\ pc = "comment_ret"
    /\ fpc \in {"w_done", "w_raised"}
    /\ WrapperLeave
    /\ structural' = IF AllAttemptsCaught \/ fpc = "w_raised"
                     THEN structural \cup {"comment_posts"} ELSE structural
    /\ IF fpc = "w_raised"
       THEN /\ pc' = "except"
            /\ UNCHANGED <<frame, result>>
       ELSE IF frame = "run_all"
       THEN /\ pc' = "sign"
            /\ UNCHANGED <<frame, result>>
       ELSE Return("True")
    /\ max_posts' = 0
    /\ post_items' = <<>>
    /\ listed' = FALSE
    /\ valid_posts' = <<>>
    /\ selected_posts' = <<>>
    /\ selected_urls' = <<>>
    /\ idx' = 0
    /\ comment_count' = 0
    /\ navigated' = <<>>
    /\ outcomes' = <<>>
    /\ last_count' = IF fpc = "w_done" THEN ret[2] ELSE last_count
    /\ UNCHANGED <<login_ops, signalled>>
    /\ UNCHANGED <<page, browsers, exit_code, log>>
    /\ UNCHANGED ovars
    /\ UNCHANGED svars
    /\ UNCHANGED failFirst

\* main (sign-only) / run_all: sign_in is called.
CallSign ==
    /\ pc = "sign"
    /\ fpc = "idle"
    /\ WrapperEnter("sign_in", SignInRetries)
    /\ log' = Append(log, "sign_in")
    /\ pc' = "sign_ret"
    /\ icon' = "unknown"
    /\ clicks' = <<>>
    /\ reward' = "none"
    /\ UNCHANGED <<frame, page, browsers, result, exit_code, structural>>
    /\ UNCHANGED ovars
    /\ UNCHANGED hvars
    /\ UNCHANGED cvars
    /\ UNCHANGED failFirst

\* main (sign-only) / run_all: sign_in returned (or raised); either result is
\* only logged and the caller returns True. sign_in's locals are gone.
AfterSign ==
    /\ pc = "sign_ret"
    /\ fpc \in {"w_done", "w_raised"}
    /\ WrapperLeave
    /\ structural' = IF AllAttemptsCaught \/ fpc = "w_raised"
                     THEN structural \cup {"sign_in"} ELSE structural
    /\ IF fpc = "w_raised"
       THEN /\ pc' = "except"
            /\ UNCHANGED <<frame, result>>
       ELSE Return("True")
    /\ icon' = "unknown"
    /\ clicks' = <<>>
    /\ reward' = "none"
    /\ UNCHANGED <<page, browsers, exit_code, log>>
    /\ UNCHANGED ovars
    /\ UNCHANGED hvars
    /\ UNCHANGED cvars
    /\ UNCHANGED failFirst

\* `except Exception as e:` of run_all or of main: log and return False.
Except ==
    /\ pc = "except"
    /\ Return("False")
    /\ UNCHANGED <<page, browsers, exit_code, log, structural>>
    /\ UNCHANGED ovars
    /\ UNCHANGED svars
    /\ UNCHANGED hvars
    /\ UNCHANGED cvars
    /\ UNCHANGED wvars
    /\ UNCHANGED failFirst

\* page.quit() on the n-th launched browser.
Quit(bs, n) == [bs EXCEPT ![n].quits = @ + 1]

\* main's finally: `if "node_seek" in locals() and node_seek.page:`.
FinallyQuits(b, p) == b /\ p >= 1

\* main's finally block.
Finally ==
    /\ pc = "finally"
    /\ browsers' = IF FinallyQuits(bound, page) THEN Quit(browsers, page) ELSE browsers
    /\ pc' = "del"
    /\ UNCHANGED <<frame, page, result, exit_code, log, structural>>
    /\ UNCHANGED ovars
    /\ UNCHANGED svars
    /\ UNCHANGED hvars
    /\ UNCHANGED cvars
    /\ UNCHANGED wvars
    /\ UNCHANGED failFirst

\* __del__: `if self.page: self.page.quit()`; reading the attribute of an
\* object whose __init__ raised is an AttributeError, swallowed.
DelQuits(o, p) == o # "none" /\ p >= 1

\* main has returned: the last reference to the object is dropped and its
\* finalizer runs before the process exits.
Del ==
    /\ pc = "del"
    /\ browsers' = IF DelQuits(obj, page) THEN Quit(browsers, page) ELSE browsers
    /\ obj' = "none"
    /\ pc' = "exit"
    /\ UNCHANGED <<frame, args, bound, cookie, username, password, headless,
                   use_random, page, result, exit_code, log, structural>>
    /\ UNCHANGED cvars
    /\ UNCHANGED svars
    /\ UNCHANGED hvars
    /\ UNCHANGED wvars
    /\ UNCHANGED failFirst

\* `sys.exit(0 if success else 1)`.
ExitCode(r) == IF r = "True" THEN 0 ELSE 1

\* The process exits: with main's result, or, when main was left by the
\* signal handler's SystemExit, with that exception's code 0.
Exit ==
    /\ pc = "exit"
    /\ exit_code' = IF result = "SystemExit" THEN 0 ELSE ExitCode(result)
    /\ pc' = "exited"
    /\ UNCHANGED <<frame, page, browsers, result, log, structural>>
    /\ UNCHANGED ovars
    /\ UNCHANGED svars
    /\ UNCHANGED hvars
    /\ UNCHANGED cvars
    /\ UNCHANGED wvars
    /\ UNCHANGED failFirst

\* ============================================================ setup_browser
\* Body of setup_browser up to the call ChromiumPage(...): the launch either
\* raises (caught by the body's own handler, which returns False) or starts a
\* new browser.
SbLaunch ==
    /\ fpc = "sb_launch"
    /\ \E ok \in BOOLEAN :
          IF ok
          THEN /\ browsers' = Append(browsers, [quits |-> 0, headless |-> headless])
               /\ fpc' = "sb_assign"
               /\ UNCHANGED <<func, max_retries, retries, calls, warnings, errors,
                              sleeps, delay, waits, ret, exc, caught>>
          ELSE /\ BodyCaught(PyFalse)
               /\ UNCHANGED browsers
    /\ UNCHANGED <<pc, frame, page, result, exit_code, log, structural>>
    /\ UNCHANGED ovars
    /\ UNCHANGED svars
    /\ UNCHANGED hvars
    /\ UNCHANGED cvars
    /\ UNCHANGED failFirst

\* `self.page = <the ChromiumPage just built>`: the new browser replaces
\* whatever self.page held.
SbAssign ==
    /\ fpc = "sb_assign"
    /\ page' = Len(browsers)
    /\ IF headless
       THEN /\ fpc' = "sb_js"
            /\ UNCHANGED <<func, max_retries, retries, calls, warnings, errors,
                           sleeps, delay, waits, ret, exc, caught>>
       ELSE BodyReturn(PyTrue)
    /\ UNCHANGED <<pc, frame, browsers, result, exit_code, log, structural>>
    /\ UNCHANGED ovars
    /\ UNCHANGED svars
    /\ UNCHANGED hvars
    /\ UNCHANGED cvars
    /\ UNCHANGED failFirst

\* Body of setup_browser, headless only: run_js masks the webdriver flag; if
\* it raises the handler returns False with the browser already launched.
SbRunJs ==
    /\ fpc = "sb_js"
    /\ \E ok \in BOOLEAN : IF ok THEN BodyReturn(PyTrue) ELSE BodyCaught(PyFalse)
    /\ UNCHANGED mvars
    /\ UNCHANGED failFirst

\* ================================================================== sign_in
\* self.page.get(home): a navigation failure is caught by the outermost handler.
SiGet ==
    /\ fpc = "si_get"
    /\ \E ok \in BOOLEAN :
          IF ok
          THEN /\ fpc' = "si_find"
               /\ UNCHANGED <<func, max_retries, retries, calls, warnings, errors,
                              sleeps, delay, waits, ret, exc, caught>>
          ELSE BodyCaught(PyFalse)
    /\ UNCHANGED mvars
    /\ UNCHANGED failFirst

\* Mutation of IconPresent: the `if not sign_icon` test is missing.
IconPresentAlways(r) == TRUE

\* `if not sign_icon: return False`: whether sign_in goes on to click.
IconPresent(r) == r = "found"

\* The check-in icon is looked up: absent means `return False`.
SiFind ==
    /\ fpc = "si_find"
    /\ \E r \in {"found", "absent", "raise"} :
          IF r = "raise"
          THEN /\ BodyCaught(PyFalse)
               /\ UNCHANGED icon
          ELSE /\ icon' = r
               /\ IF IconPresent(r)
                  THEN /\ fpc' = "si_click"
                       /\ UNCHANGED <<func, max_retries, retries, calls, warnings,
                                      errors, sleeps, delay, waits, ret, exc, caught>>
                  ELSE BodyReturn(PyFalse)
    /\ UNCHANGED <<clicks, reward>>
    /\ UNCHANGED <<pvars, ovars, cvars, hvars>>
    /\ UNCHANGED failFirst

\* The icon is clicked, natively or, if that raises, by script; a failure of
\* the scripted click, or of reading page.url after the click, reaches the
\* outermost handler.
SiClick ==
    /\ fpc = "si_click"
    /\ \E r \in {"click", "js_click", "both_raise", "click_url_raise"} :
          /\ clicks' = CASE r = "click" -> Append(clicks, "icon_native")
                         [] r = "js_click" -> Append(clicks, "icon_js")
                         [] r = "click_url_raise" -> Append(clicks, "icon_native")
                         [] OTHER -> clicks
          /\ IF r \in {"both_raise", "click_url_raise"}
             THEN BodyCaught(PyFalse)
             ELSE /\ fpc' = "si_reward"
                  /\ UNCHANGED <<func, max_retries, retries, calls, warnings, errors,
                                 sleeps, delay, waits, ret, exc, caught>>
    /\ UNCHANGED <<icon, reward>>
    /\ UNCHANGED <<pvars, ovars, cvars, hvars>>
    /\ UNCHANGED failFirst

\* Mutation of RewardButton: the fixed reward whatever the setting.
RewardButtonFixed(u) == "reward_fixed"

\* The reward button sign_in looks for: the random-luck button with
\* use_random, the fixed 5-unit button otherwise.
RewardButton(u) == IF u THEN "reward_random" ELSE "reward_fixed"

\* The reward button: found and clicked, absent, or the lookup or the click
\* raises; sign_in returns True in all three cases.
SiReward ==
    /\ fpc = "si_reward"
    /\ \E r \in {"clicked", "absent", "raise"} :
          /\ reward' = r
          /\ clicks' = IF r = "clicked" THEN Append(clicks, RewardButton(use_random))
                       ELSE clicks
          /\ BodyReturn(PyTrue)
    /\ UNCHANGED icon
    /\ UNCHANGED <<pvars, ovars, cvars, hvars>>
    /\ UNCHANGED failFirst

\* ============================================================ comment_posts
\* Largest listing the trade page returns.
MaxListing == 2
\* Largest --max-posts given on the command line (run_all's own 2 comes on top).
MaxPostsArg == 1

\* Titles as character sequences: "chu" stands for the inclusion marker, the
\* pair "yi","chu" for the exclusion marker.
InclusionMarker == <<"chu">>
ExclusionMarker == <<"yi", "chu">>
Titles == {<<"x">>, <<"chu">>, <<"yi", "chu">>, <<"chu", "yi">>}
\* A pinned post is dropped before its title is read: one title stands for all.
PostKinds == {k \in [pinned : BOOLEAN, title : Titles] : k.pinned => k.title = <<"chu">>}
Listings == UNION {[1..n -> PostKinds] : n \in 0..MaxListing}

\* Python `m in t` on strings.
Contains(t, m) ==
    \E i \in 1..(Len(t) - Len(m) + 1) : SubSeq(t, i, i + Len(m) - 1) = m

\* Mutation of Eligible: the pinned test is missing.
EligibleIgnoringPinned(post) ==
    /\ Contains(post.title, InclusionMarker)
    /\ ~Contains(post.title, ExclusionMarker)

\* The two filters of comment_posts: not pinned, title contains the inclusion
\* marker and not the exclusion marker.
Eligible(post) ==
    /\ ~post.pinned
    /\ Contains(post.title, InclusionMarker)
    /\ ~Contains(post.title, ExclusionMarker)

\* valid_posts, as the positions in the listing, in listing order.
ValidPosts(items) ==
    SelectSeq([i \in 1..Len(items) |-> i], LAMBDA i : Eligible(items[i]))

Range(s) == {s[i] : i \in 1..Len(s)}

\* Mutation of PostCount: the sample size ignores max_posts.
PostCountAll(mp, n) == n

\* `post_count = min(max_posts, len(valid_posts))`.
PostCount(mp, n) == Min(mp, n)

\* The results random.sample(valid_posts, k) can have: every sequence of k
\* distinct elements.
Samples(valid, k) ==
    {s \in [1..k -> Range(valid)] : \A i, j \in 1..k : i # j => s[i] # s[j]}

\* What resolving a sampled post's link can give: an href, an href attribute
\* of None, no link element (or an exception): the last is skipped.
LinkOutcomes == {"href", "none", "skip"}

\* selected_urls: the hrefs of the sampled posts whose link element was found;
\* a post's href is identified with its position in the listing, 0 is None.
RECURSIVE Urls(_, _, _)
Urls(sel, outs, i) ==
    IF i > Len(sel) THEN <<>>
    ELSE (CASE outs[i] = "href" -> <<sel[i]>>
            [] outs[i] = "none" -> <<0>>
            [] OTHER -> <<>>) \o Urls(sel, outs, i + 1)

\* self.page.get(trade listing).
CpGet ==
    /\ fpc = "cp_get"
    /\ \E ok \in BOOLEAN :
          IF ok
          THEN /\ fpc' = "cp_list"
               /\ UNCHANGED <<func, max_retries, retries, calls, warnings, errors,
                              sleeps, delay, waits, ret, exc, caught>>
          ELSE BodyCaught(PyInt(0))
    /\ UNCHANGED mvars
    /\ UNCHANGED failFirst

\* Mutation of NothingToDo: the early returns are missing.
NothingToDoNever(items, valid) == FALSE

\* `if not post_items: return 0` and `if not valid_posts: return 0`.
NothingToDo(items, valid) == items = <<>> \/ valid = <<>>

\* From page.eles to selected_urls: read the listing, filter, sample, resolve
\* the links. An empty listing or an empty valid_posts returns 0; an exception
\* (page.eles, a filter lookup, random.sample with a negative size) reaches the
\* outermost handler, which returns 0.
CpList ==
    /\ fpc = "cp_list"
    /\ \/ /\ BodyCaught(PyInt(0))
          /\ UNCHANGED cvars
       \/ \E items \in Listings :
             LET valid == ValidPosts(items)
                 k == PostCount(max_posts, Len(valid))
             IN  /\ post_items' = items
                 /\ listed' = TRUE
                 /\ valid_posts' = valid
                 /\ IF NothingToDo(items, valid)
                    THEN /\ BodyReturn(PyInt(0))
                         /\ UNCHANGED <<selected_posts, selected_urls, idx,
                                        comment_count>>
                    ELSE IF k < 0 \/ k > Len(valid)
                    THEN /\ BodyCaught(PyInt(0))
                         /\ UNCHANGED <<selected_posts, selected_urls, idx,
                                        comment_count>>
                    ELSE \E sel \in Samples(valid, k) :
                         \E outs \in [1..k -> LinkOutcomes] :
                            /\ selected_posts' = sel
                            /\ selected_urls' = Urls(sel, outs, 1)
                            /\ idx' = 0
                            /\ comment_count' = 0
                            /\ fpc' = "cp_loop"
                            /\ UNCHANGED <<func, max_retries, retries, calls,
                                           warnings, errors, sleeps, delay, waits, ret, exc, caught>>
                 /\ UNCHANGED <<max_posts, navigated, outcomes>>
    /\ UNCHANGED <<pc, frame, page, browsers, result, exit_code, log, structural>>
    /\ UNCHANGED ovars
    /\ UNCHANGED svars
    /\ UNCHANGED hvars
    /\ UNCHANGED failFirst

\* What can happen on a post page after the navigation was issued: the
\* navigation raises, the editor is missing, the submit button is missing,
\* some other call raises, or the submit button's click completes.
PostOutcomes == {"nav_raise", "no_editor", "no_submit", "error", "submitted"}

\* Mutation of AfterPost: a post that was not commented ends the loop.
AfterPostAbort(i, n, out) == IF out = "submitted" THEN i ELSE n

\* The loop position after the i-th of n selected urls was handled with
\* outcome out: `continue` in every skip and in the per-post handler.
AfterPost(i, n, out) == i

\* One turn of `for i, post_url in enumerate(selected_urls)`, or the return
\* after the loop. An href of None raises before the navigation; everything
\* in the turn is caught and the loop goes on.
CpLoop ==
    /\ fpc = "cp_loop"
    /\ IF idx < Len(selected_urls)
       THEN LET url == selected_urls[idx + 1]
                n == Len(selected_urls)
            IN  /\ IF url = 0
                   THEN /\ idx' = AfterPost(idx + 1, n, "no_href")
                        /\ UNCHANGED <<navigated, outcomes, comment_count>>
                   ELSE /\ navigated' = Append(navigated, url)
                        /\ \E out \in PostOutcomes :
                              /\ outcomes' = Append(outcomes,
                                    IF out = "submitted" THEN "submitted" ELSE "failed")
                              /\ idx' = AfterPost(idx + 1, n, out)
                              /\ comment_count' =
                                    IF out = "submitted" THEN comment_count + 1
                                    ELSE comment_count
                /\ UNCHANGED wvars
       ELSE /\ BodyReturn(PyInt(comment_count))
            /\ UNCHANGED <<idx, navigated, outcomes, comment_count>>
    /\ UNCHANGED <<max_posts, post_items, listed, valid_posts, selected_posts,
                   selected_urls>>
    /\ UNCHANGED <<pc, frame, page, browsers, result, exit_code, log, structural>>
    /\ UNCHANGED ovars
    /\ UNCHANGED svars
    /\ UNCHANGED hvars
    /\ UNCHANGED failFirst

\* ================================================================== program
Init ==
    /\ pc = "start"
    /\ args \in [mode : Modes, max_posts : 0..MaxPostsArg, headless : HeadlessFlags,
                random : BOOLEAN]
    /\ InitProcess
    /\ func = "none"
    /\ fpc = "idle"
    /\ max_retries = 0
    /\ delay = MethodDelay
    /\ waits = <<>>
    /\ retries = 0
    /\ calls = 0
    /\ warnings = 0
    /\ errors = 0
    /\ sleeps = 0
    /\ ret = PyNone
    /\ exc = 0
    /\ caught = 0
    /\ failFirst = 0

\* The retry wrapper around the three decorated methods.
Wrapper == fpc \in {"w_loop", "w_except"} /\ IF fpc = "w_loop" THEN WrapperLoop ELSE WrapperExcept

Next ==
    \/ Construct \/ Override
    \/ CallSetup \/ AfterSetup \/ Login
    \/ CallComment \/ AfterComment \/ CallSign \/ AfterSign
    \/ Except \/ Finally \/ Del \/ Exit
    \/ Wrapper
    \/ SbLaunch \/ SbAssign \/ SbRunJs
    \/ SiGet \/ SiFind \/ SiClick \/ SiReward
    \/ CpGet \/ CpList \/ CpLoop

Spec == Init /\ [][Next]_vars

\* ================================================================== signals
\* SIGINT or SIGTERM is delivered while main runs with a browser launched:
\* signal_handler calls sys.exit(0), which raises SystemExit at the statement
\* being executed. No `except Exception` catches it; the two bare `except:`
\* do (the debug logging in sign_in's outermost handler, the quit in main's
\* finally).
Signal ==
    /\ Len(browsers) >= 1
    /\ pc \notin {"library", "del", "exit", "exited"}
    /\ signalled' = TRUE
    /\ \/ \* SystemExit unwinds every frame up to main, whose finally runs next
          /\ pc # "finally"
          /\ WrapperLeave
          /\ Return("SystemExit")
          /\ max_posts' = 0
          /\ post_items' = <<>>
          /\ listed' = FALSE
          /\ valid_posts' = <<>>
          /\ selected_posts' = <<>>
          /\ selected_urls' = <<>>
          /\ idx' = 0
          /\ comment_count' = 0
          /\ navigated' = <<>>
          /\ outcomes' = <<>>
          /\ icon' = "unknown"
          /\ clicks' = <<>>
          /\ reward' = "none"
          /\ UNCHANGED browsers
       \/ \* sign_in failed and is logging in its handler: SystemExit is
          \* swallowed there and sign_in returns False
          /\ func = "sign_in"
          /\ fpc \in {"si_get", "si_find", "si_click"}
          /\ BodyCaught(PyFalse)
          /\ UNCHANGED <<pc, frame, result, browsers>>
          /\ UNCHANGED cvars
          /\ UNCHANGED svars
       \/ \* in main's finally before page.quit() is called: SystemExit leaves
          \* the finally block
          /\ pc = "finally"
          /\ pc' = "del"
          /\ result' = "SystemExit"
          /\ UNCHANGED <<frame, browsers>>
          /\ UNCHANGED cvars
          /\ UNCHANGED svars
          /\ UNCHANGED wvars
       \/ \* in main's finally inside page.quit(): swallowed, main goes on
          /\ pc = "finally"
          /\ FinallyQuits(bound, page)
          /\ browsers' = Quit(browsers, page)
          /\ pc' = "del"
          /\ UNCHANGED <<frame, result>>
          /\ UNCHANGED cvars
          /\ UNCHANGED svars
          /\ UNCHANGED wvars
    /\ UNCHANGED <<last_count, login_ops>>
    /\ UNCHANGED <<page, exit_code, log, structural>>
    /\ UNCHANGED ovars
    /\ UNCHANGED failFirst

NextSig == Next \/ Signal

\* A run of main in which termination signals may arrive.
SpecSig == Init /\ [][NextSig]_vars

\* ======================================================= retry wrapper claims
\* C3: with max_retries = N >= 1 and an operation failing on its first k calls,
\* the wrapper returns only when k < N, after exactly k+1 invocations and with
\* the operation's value; it raises only when k >= N, after exactly N
\* invocations and with the exception of the N-th attempt; the operation is
\* never invoked more than min(k+1, N) times.
C3_RetryAttempts ==
    (func = "op" /\ max_retries >= 1) =>
        /\ calls <= Min(failFirst + 1, max_retries)
        /\ fpc = "w_done" =>
              /\ failFirst < max_retries
              /\ calls = failFirst + 1
              /\ ret = OpValue
        /\ fpc = "w_raised" =>
              /\ failFirst >= max_retries
              /\ calls = max_retries
              /\ exc = max_retries

\* C3 witness: max_retries = 3, two failures, then the value is returned.
C3_Witness ==
    /\ func = "op" /\ fpc = "w_done"
    /\ max_retries = 3 /\ failFirst = 2 /\ calls = 3 /\ ret = OpValue

\* C4: one warning per failed attempt, and one error exactly when the attempts
\* are exhausted: between attempts and at the end the warnings equal the failed
\* attempts so far; a returning call has 0 errors; a raising call has N
\* warnings and 1 error, already emitted when the exception propagates.
C4_RetryEvents ==
    (func = "op" /\ max_retries >= 1) =>
        /\ fpc \in {"w_loop", "w_done", "w_raised"} =>
              warnings = Min(calls, failFirst)
        /\ fpc = "w_except" => warnings = calls - 1
        /\ fpc = "w_done" => warnings = failFirst /\ errors = 0
        /\ fpc = "w_raised" => warnings = max_retries /\ errors = 1
        /\ fpc # "w_raised" => errors = 0

\* C4 witness: max_retries = 3, always failing: 3 warnings, 1 error, raised.
C4_Witness ==
    /\ func = "op" /\ fpc = "w_raised"
    /\ max_retries = 3 /\ failFirst >= 3 /\ warnings = 3 /\ errors = 1

\* ============================================================ process claims
Falsy == {"None", ""}
Returned == {"finally", "del", "exit", "exited"}
Actions == {"sign_in", "comment_posts"}

\* C1 (as claimed): when the process has exited, quit was invoked exactly once
\* on every browser that was launched.
C1_QuitExactlyOnce ==
    pc = "exited" => \A i \in 1..Len(browsers) : browsers[i].quits = 1

\* C2 (as claimed): at most one browser is launched in a run, and at most one
\* launched browser is live (not yet quit) at any time.
C2_SingleBrowser ==
    /\ Len(browsers) <= 1
    /\ Cardinality({i \in 1..Len(browsers) : browsers[i].quits = 0}) <= 1

\* C5: once NodeSeekDaily() has been evaluated, construction has failed (the
\* name node_seek is unbound, the run is in or past the exception handler, the
\* page attribute was never set, no browser was launched and main does not
\* return success) exactly when no cookie is configured and username and
\* password are not both configured; otherwise it has succeeded and the page
\* attribute is set.
C5_ConfigError ==
    pc \notin {"start", "library"} =>
        IF cookie \in Falsy /\ (username \in Falsy \/ password \in Falsy)
        THEN /\ ~bound
             /\ page = -1
             /\ browsers = <<>>
             /\ pc \in {"except"} \cup Returned
             /\ result # "True"
             /\ exit_code # 0
        ELSE /\ bound
             /\ page >= 0

\* C5 witness: a username without a password and an empty cookie: the run has
\* exited with code 1 and launched nothing.
C5_Witness ==
    /\ pc = "exited" /\ ~bound /\ exit_code = 1 /\ browsers = <<>>
    /\ cookie = "" /\ username = "x" /\ password \in Falsy

\* C6 (as claimed): setup_browser gives up (returns failure to its caller)
\* only after 3 launch attempts.
C6_LaunchRetried ==
    (func = "setup_browser" /\ fpc = "w_done" /\ ~Truthy(ret)) => calls = SetupRetries

\* C7 (as claimed): an exception of a structural failure inside sign_in or
\* comment_posts leaves the function body, so none is swallowed by the body
\* and a call that met one either made all 3 attempts or ended with a
\* successful attempt.
C7_StructuralFailureRetried ==
    func \in Actions =>
        /\ caught = 0
        /\ (fpc = "w_done" /\ AllAttemptsCaught) => calls = max_retries

\* C8 (as claimed): the exit code is 1 exactly when the run failed: the
\* configuration was rejected, setup_browser failed, login failed, or a
\* selected action failed structurally on every attempt; otherwise it is 0.
RunFailed ==
    \/ ~bound
    \/ \E i \in 1..Len(log) :
          log[i] \in {"setup_fail", "setup_raise", "login_false", "login_raise"}
    \/ structural # {}

C8_ExitCode ==
    pc = "exited" => exit_code = (IF RunFailed THEN 1 ELSE 0)

\* C9: in the order of the orchestration events, login is called only directly
\* after a setup_browser that returned success; an action is invoked only
\* after a login that returned true with no setup_browser or login in between
\* (the same session); nothing is called after a failed setup_browser or a
\* failed login, and main then returns failure.
C9_Gating ==
    \A i \in 1..Len(log) :
        /\ log[i] \in {"login_true", "login_false", "login_raise"} =>
              i >= 2 /\ log[i - 1] = "setup_ok"
        /\ log[i] \in Actions =>
              \E j \in 1..(i - 1) :
                 /\ log[j] = "login_true"
                 /\ \A m \in (j + 1)..(i - 1) : log[m] \in Actions
        /\ log[i] \in {"setup_fail", "setup_raise", "login_false", "login_raise"} =>
              /\ i = Len(log)
              /\ pc \in {"except"} \cup Returned
              /\ pc \in Returned => result = "False"
              /\ func = "none"

\* C9 witness: the default mode with every step succeeding: both actions ran,
\* each after a successful setup_browser and a true login.
C9_Witness ==
    /\ pc = "exited"
    /\ log = <<"setup_ok", "login_true", "setup_ok", "login_true",
               "comment_posts", "sign_in">>

\* The eligible posts of a listing, stated from the listing alone: not pinned,
\* title with the inclusion marker and without the exclusion marker.
EligibleSet(items) ==
    {i \in 1..Len(items) :
        /\ ~items[i].pinned
        /\ items[i].title \in {<<"chu">>, <<"chu", "yi">>}}

\* C10: in one execution of comment_posts(max_posts) the post pages navigated
\* to are at most min(max_posts, number of eligible posts), each is an
\* eligible post of the listing, and none occurs twice.
C10_BoundedDistinct ==
    /\ Len(navigated) <= Min(max_posts, Cardinality(EligibleSet(post_items)))
    /\ \A i \in 1..Len(navigated) : navigated[i] \in EligibleSet(post_items)
    /\ \A i, j \in 1..Len(navigated) : i # j => navigated[i] # navigated[j]

\* C10 witness: two eligible posts, max_posts = 1: comment_posts has returned
\* after navigating to exactly one of them.
C10_Witness ==
    /\ func = "comment_posts" /\ fpc = "w_done"
    /\ max_posts = 1
    /\ Cardinality(EligibleSet(post_items)) = 2
    /\ Len(navigated) = 1

\* ====================================================== comment_posts claims
\* A title has the inclusion marker / the exclusion marker, stated on the
\* characters of the title.
HasInclusion(t) == \E i \in 1..Len(t) : t[i] = "chu"
HasExclusion(t) == \E i \in 1..(Len(t) - 1) : t[i] = "yi" /\ t[i + 1] = "chu"

\* C11: once the listing was filtered, valid_posts holds, in listing order and
\* without repetition, exactly the listed posts that are not pinned and whose
\* title has the inclusion marker and not the exclusion marker.
C11_Filter ==
    listed =>
        /\ \A i \in 1..Len(post_items) :
              (\E j \in 1..Len(valid_posts) : valid_posts[j] = i)
              <=> /\ ~post_items[i].pinned
                  /\ HasInclusion(post_items[i].title)
                  /\ ~HasExclusion(post_items[i].title)
        /\ \A j \in 1..Len(valid_posts) : valid_posts[j] \in 1..Len(post_items)
        /\ \A j, k \in 1..Len(valid_posts) : j < k => valid_posts[j] < valid_posts[k]

\* C11 witness: a listing of a pinned post with a matching title and a post
\* whose title has the exclusion marker (hence both markers): both dropped.
C11_Witness ==
    /\ listed
    /\ post_items = <<[pinned |-> TRUE, title |-> <<"chu">>],
                      [pinned |-> FALSE, title |-> <<"yi", "chu">>]>>
    /\ valid_posts = <<>>

\* C12: whenever the listing was read and filtered and no post of it is
\* eligible (the empty listing included), comment_posts has returned at once:
\* the value is 0, no exception was raised or swallowed, nothing was sampled,
\* no post page was navigated to and no comment was submitted.
C12_EmptyEligible ==
    (listed /\ EligibleSet(post_items) = {}) =>
        /\ func = "comment_posts"
        /\ fpc = "w_done"
        /\ ret = PyInt(0)
        /\ caught = 0 /\ retries = 0 /\ exc = 0 /\ calls = 1
        /\ selected_posts = <<>> /\ selected_urls = <<>>
        /\ navigated = <<>> /\ outcomes = <<>> /\ comment_count = 0

\* C12 witness: a non-empty listing without an eligible post, returned 0.
C12_Witness ==
    /\ listed /\ Len(post_items) = 2 /\ EligibleSet(post_items) = {}
    /\ fpc = "w_done" /\ ret = PyInt(0)

\* The members of a sequence that are not 0, in order.
NonZero(s) == SelectSeq(s, LAMBDA u : u # 0)

\* How many members of a sequence equal x.
Count(s, x) == Cardinality({i \in 1..Len(s) : s[i] = x})

\* C14: when comment_posts returns from its loop, every selected url (href
\* not None) was navigated to, in order, whatever happened on the posts
\* before it; the value returned is the number of navigated posts whose
\* submit click completed, at most the number of navigations; and if every
\* sampled post's link resolved and at least max_posts posts are eligible,
\* exactly max_posts distinct eligible posts were navigated to.
C14_BatchContinues ==
    (func = "comment_posts" /\ fpc = "w_done" /\ listed /\ caught = 0
        /\ EligibleSet(post_items) # {}) =>
        /\ navigated = NonZero(selected_urls)
        /\ Len(outcomes) = Len(navigated)
        /\ ret = PyInt(Count(outcomes, "submitted"))
        /\ ret[2] <= Len(navigated)
        /\ (selected_urls = selected_posts
              /\ Cardinality(EligibleSet(post_items)) >= max_posts) =>
              /\ Len(navigated) = max_posts
              /\ Cardinality({navigated[i] : i \in 1..Len(navigated)}) = max_posts
              /\ \A i \in 1..Len(navigated) : navigated[i] \in EligibleSet(post_items)

\* C14 witness: two posts selected, the first one's page fails, the second
\* is still navigated to and commented: 2 navigations, count 1.
C14_Witness ==
    /\ func = "comment_posts" /\ fpc = "w_done"
    /\ max_posts = 2 /\ Len(navigated) = 2
    /\ outcomes = <<"failed", "submitted">>
    /\ ret = PyInt(1)

\* ------------------------------------------------------------------ C13
\* C13: when the check-in icon is not on the home page, sign_in returns False
\* without raising, has clicked nothing (neither the icon nor a reward button,
\* neither natively nor by script), and the retry wrapper made one call only:
\* no failure was counted, no attempt repeated.
C13_IconAbsent ==
    (func = "sign_in" /\ icon = "absent")
        => /\ fpc = "w_done"
           /\ ret = PyFalse
           /\ exc = 0
           /\ clicks = <<>>
           /\ reward = "none"
           /\ calls = 1
           /\ retries = 0
           /\ caught = 0

\* sign_in has returned to the wrapper after finding no icon.
C13_Witness ==
    /\ func = "sign_in"
    /\ icon = "absent"
    /\ fpc = "w_done"
    /\ pc = "sign_ret"

\* ------------------------------------------------------------------ C19
\* C19: sign_in clicks a reward button only after it clicked the icon, at most
\* once, and only the button use_random prefers (random-luck when true, the
\* fixed reward otherwise); once the reward step was reached, sign_in returns
\* True whether the button was clicked, did not appear, or raised.
C19_PreferredReward ==
    func = "sign_in" =>
        /\ \A i \in 1..Len(clicks) :
              clicks[i] \in {"reward_random", "reward_fixed"}
                  => /\ i = 2
                     /\ clicks[1] \in {"icon_native", "icon_js"}
                     /\ clicks[i] = (IF use_random THEN "reward_random"
                                     ELSE "reward_fixed")
        /\ Len(clicks) <= 2
        /\ reward # "none"
              => /\ fpc = "w_done"
                 /\ ret = PyTrue
                 /\ exc = 0
                 /\ caught = 0
                 /\ Len(clicks) >= 1
                 /\ (reward = "clicked") = (Len(clicks) = 2)

\* The random-luck button was clicked after a scripted click of the icon.
C19_Witness ==
    /\ func = "sign_in"
    /\ use_random
    /\ clicks = <<"icon_js", "reward_random">>
    /\ ret = PyTrue

\* sign_in returned True although the preferred button did not appear.
C19_WitnessAbsent ==
    /\ func = "sign_in"
    /\ ~use_random
    /\ reward = "absent"
    /\ clicks = <<"icon_native">>
    /\ ret = PyTrue

\* ------------------------------------------------------------------ C15
\* C15: in check-in-only mode comment_posts is never invoked; in comment-only
\* mode sign_in is never invoked; in the default mode every sign_in call comes
\* after a comment_posts call that has returned, and once comment_posts has
\* returned a count, whatever it is, sign_in is the next thing invoked.
C15_Modes ==
    /\ args.mode = "sign_only"
          => /\ "comment_posts" \notin Range(log)
             /\ func # "comment_posts"
             /\ last_count = -1
    /\ args.mode = "comment_only"
          => /\ "sign_in" \notin Range(log)
             /\ func # "sign_in"
    /\ args.mode = "all"
          => /\ \A i \in 1..Len(log) :
                   log[i] = "sign_in"
                       => /\ \E j \in 1..(i - 1) : log[j] = "comment_posts"
                          /\ last_count >= 0
             /\ func = "sign_in" => last_count >= 0
             /\ (last_count >= 0 /\ pc # "sign") => "sign_in" \in Range(log)
             /\ (pc \in {"sign", "sign_ret"} \/ "sign_in" \in Range(log))
                   => "comment_posts" \in Range(log)

\* Default mode: comment_posts returned 0 and sign_in is running all the same.
C15_Witness ==
    /\ args.mode = "all"
    /\ last_count = 0
    /\ func = "sign_in"
    /\ log[Len(log)] = "sign_in"

\* ------------------------------------------------------------------ C16
\* C16: in every mode that comments, comment_posts is called with max_posts
\* equal to the command line's --max-posts, so no call comments on more posts
\* than that. (Violated: run_all passes the literal 2.)
C16_MaxPostsHonoured ==
    /\ func = "comment_posts" => max_posts = args.max_posts
    /\ comment_count <= args.max_posts
    /\ last_count <= args.max_posts

\* ------------------------------------------------------------------ C17
\* C17: the command line overrides leave self.headless equal to the flag when
\* --headless or --no-headless was given and to the configured toggle (what
\* __init__ read from HEADLESS, true when unset) otherwise; nothing changes it
\* afterwards, and every browser is launched with it. (Violated: without a
\* flag args.headless is False, not None, and overrides the toggle.)
C17_HeadlessAtLaunch ==
    [][/\ pc = "override"
          => headless' = (CASE args.headless = "headless" -> TRUE
                            [] args.headless = "no_headless" -> FALSE
                            [] OTHER -> headless)
       /\ pc \notin {"start", "override"} => headless' = headless
       /\ \A i \in 1..Len(browsers') : browsers'[i].headless = headless']_vars

\* ------------------------------------------------------------------ C20
LoginEvents == {"login_true", "login_false", "login_raise"}

C20_WitnessNoCookie ==
    /\ log = <<"setup_ok", "login_false">>
    /\ cookie \in Falsy
    /\ username = "x" /\ password = "x"
    /\ login_ops = <<>>

\* ------------------------------------------------------------------ C18
\* C18: when the process has exited after a termination signal that arrived
\* while a browser was launched and main had not returned, quit was called on
\* every launched browser. (Violated: a browser that self.page does not, or
\* not yet, refer to is out of reach of main's finally.)
C18_SignalTeardown ==
    (pc = "exited" /\ signalled) =>
        \A i \in 1..Len(browsers) : browsers[i].quits >= 1

\* ------------------------------------------------------------------ C21
\* C21: the wrapper sleeps only between two consecutive attempts, once, and
\* always for the decorator's delay: while the m-th attempt runs, and when the
\* call has ended after m attempts, exactly m-1 waits were made (none before
\* the first attempt, after a returning attempt or after the last failed
\* one); a wait is always followed by another attempt; and with
\* max_retries <= 0 the operation is not invoked, nothing is slept or raised
\* and the wrapper returns None.
C21_RetryWaits ==
    func = "op" =>
        /\ \A i \in 1..Len(waits) : waits[i] = delay
        /\ Len(waits) = sleeps
        /\ fpc \in {"op_body", "w_except"} => Len(waits) = calls - 1
        /\ fpc = "w_loop" =>
              /\ Len(waits) = calls
              /\ calls >= 1 => retries < max_retries
        /\ fpc \in {"w_done", "w_raised"} =>
              Len(waits) = (IF calls = 0 THEN 0 ELSE calls - 1)
        /\ max_retries <= 0 =>
              /\ calls = 0
              /\ waits = <<>>
              /\ fpc \in {"w_loop", "w_done"}
              /\ fpc = "w_done" => ret = PyNone /\ exc = 0

\* C21 witness: max_retries = 3, two failures then the value: three attempts,
\* two waits of the delay.
C21_Witness ==
    /\ func = "op" /\ fpc = "w_done"
    /\ max_retries = 3 /\ failFirst = 2 /\ calls = 3
    /\ delay = 2 /\ waits = <<2, 2>>

\* The last attempt failed: max_retries attempts, one wait fewer, raised.
C21_WitnessRaised ==
    /\ func = "op" /\ fpc = "w_raised"
    /\ max_retries = 3 /\ calls = 3 /\ waits = <<1, 1>>

\* max_retries below 1: returned None without an attempt.
C21_WitnessNoBudget ==
    /\ func = "op" /\ fpc = "w_done"
    /\ max_retries = -1 /\ calls = 0 /\ ret = PyNone /\ waits = <<>>

====
